---- MODULE Spec2Model ----
(***************************************************************************)
(* Model of the schedumich schedule search: umich.MeetingTime,             *)
(* umich.Building.from_section, umich.SectionGroup and                     *)
(* ClassPicker.pick_sections, with the criterion registry used by          *)
(* example.py, and of the renderer, ClassPicker.ScheduleCanvas and         *)
(* print_schedule.                                                         *)
(*                                                                         *)
(* Conventions.  A Python string that the code takes apart is a sequence:  *)
(* a Days string is a sequence of one-character strings, a Location is the *)
(* sequence of its whitespace-separated words, a clock reading such as     *)
(* "9:30AM" is the record of the fields strptime("%I:%M%p") reads.  A      *)
(* time.struct_time is the record of its tm_hour and tm_min (every other   *)
(* field is the same for all values strptime("%I:%M%p") returns).  A       *)
(* datetime.timedelta is a number of minutes.  A call that can raise       *)
(* returns a record whose tag names the exception.  A string that is drawn *)
(* is the sequence of its characters, a point of the canvas the pair of    *)
(* its row and column counted from 0 as in the code, and the canvas object *)
(* carries the exception that left a method in its field raised.           *)
(***************************************************************************)
EXTENDS Integers, Sequences, FiniteSets, TLC

VARIABLES
    section_group_names,  \* Input.get_section_group_names(): the class codes
    seed,                 \* this process's string-hash order (PYTHONHASHSEED)
    criteria,             \* the ClassPicker's criterion registry
    pc,                   \* "ready" | "crashed" (an exception left main),
                          \* or the name of the single function applied
    last,                 \* the pick_sections call that ended last
    call,                 \* arguments of a single function application
    ret,                  \* <<>>, or <<its result>> once it is applied
    canvas,               \* the ScheduleCanvas of print_schedule
    todo                  \* the sections print_schedule has yet to add

vars ==
    <<section_group_names, seed, criteria, pc, last, call, ret, canvas, todo>>

----------------------------------------------------------------------------
(* Bounds of the model. *)

\* How many class codes the user asks for.
MaxCourses == 2
\* How many criteria a ClassPicker's registry takes.
MaxCriteria == 2
\* Times of day of the meeting times drawn: 9:00 + k * 15 minutes, k <= MaxSlot.
MaxSlot == 5
\* Times of day at which the sections of a drawn candidate begin, likewise.
MaxBegin == 3
\* How many sections a drawn section list has.
MaxSections == 3
\* How many words a drawn location has.
MaxWords == 2
\* How many sections a schedule given to print_schedule has.
MaxScheduleLength == 2
\* The last column of the canvas on which lines and boxes are drawn.
MaxColumn == 2
\* How many lines and boxes are drawn on it.
MaxDraws == 2

(* Program constants. *)

\* main.py: TIME_BETWEEN_CAMPUSES = datetime.timedelta(minutes=30)
TIME_BETWEEN_CAMPUSES == 30

----------------------------------------------------------------------------
(* Sequence helpers. *)

Last(s) == s[Len(s)]

SeqToSet(s) == {s[i] : i \in DOMAIN s}

RECURSIVE Concat(_)
\* The concatenation of a sequence of sequences.
Concat(ss) == IF ss = <<>> THEN <<>> ELSE Head(ss) \o Concat(Tail(ss))

\* itertools.combinations(s, 2): the index pairs, in the order produced.
RECURSIVE PairsFrom(_, _, _)
PairsFrom(n, i, j) ==
    IF i >= n THEN <<>>
    ELSE IF j > n THEN PairsFrom(n, i + 1, i + 2)
    ELSE <<(<<i, j>>)>> \o PairsFrom(n, i, j + 1)

combinations2(s) == PairsFrom(Len(s), 1, 2)

----------------------------------------------------------------------------
(* umich.MeetingTime *)

\* time.strptime(time_str, "%I:%M%p"): the 12-hour reading as a struct_time.
convert_time(clock) ==
    [tm_hour |-> (clock.I % 12) + (IF clock.p = "PM" THEN 12 ELSE 0),
     tm_min  |-> clock.M]

\* struct_time < struct_time: tuple comparison, decided by (tm_hour, tm_min).
StructTimeLess(t1, t2) ==
    \/ t1.tm_hour < t2.tm_hour
    \/ t1.tm_hour = t2.tm_hour /\ t1.tm_min < t2.tm_min

\* One round of the loop that splits Days into two-character snippets.
SplitDaysStep(day_list, ch) ==
    LET dl == IF Len(Last(day_list)) = 2 THEN Append(day_list, <<>>)
              ELSE day_list
    IN  [dl EXCEPT ![Len(dl)] = Append(@, ch)]

RECURSIVE SplitDays(_, _)
SplitDays(day_list, days) ==
    IF days = <<>> THEN day_list
    ELSE SplitDays(SplitDaysStep(day_list, Head(days)), Tail(days))

MeetingTime(day_list, time_begin, time_end) ==
    [day_list |-> day_list, time_begin |-> time_begin, time_end |-> time_end]

from_days_and_times(days, times) ==
    MeetingTime(SplitDays(<< <<>> >>, days),
                convert_time(times.begin), convert_time(times.end))

\* MeetingTime.to_datetime_time + datetime.combine(today, ...): minutes of the day.
to_datetime_time(t) == t.tm_hour * 60 + t.tm_min

\* MeetingTime.time_difference(time1, time2): time2 - time1, in minutes.
time_difference(time1, time2) == to_datetime_time(time2) - to_datetime_time(time1)

\* MeetingTime.length
length(mt) == to_datetime_time(mt.time_end) - to_datetime_time(mt.time_begin)

\* sorted([a, b], key=begin): stable, b comes first only when strictly smaller.
SortedByBegin(a, b) ==
    IF StructTimeLess(b.time_begin, a.time_begin) THEN <<b, a>> ELSE <<a, b>>

\* Mutant: compares the hours only.
conflicts_with_hours_only(self, other) ==
    IF SeqToSet(self.day_list) \cap SeqToSet(other.day_list) = {} THEN FALSE
    ELSE LET times == SortedByBegin(self, other)
         IN  times[2].time_begin.tm_hour < times[1].time_end.tm_hour

\* Mutant: bordering meeting times conflict (<= for <).
conflicts_with_border(self, other) ==
    IF SeqToSet(self.day_list) \cap SeqToSet(other.day_list) = {} THEN FALSE
    ELSE LET times == SortedByBegin(self, other)
         IN  ~ StructTimeLess(times[1].time_end, times[2].time_begin)

\* Mutant: the same-day test is missing.
conflicts_with_any_day(self, other) ==
    LET times == SortedByBegin(self, other)
    IN  StructTimeLess(times[2].time_begin, times[1].time_end)

conflicts_with(self, other) ==
    IF SeqToSet(self.day_list) \cap SeqToSet(other.day_list) = {} THEN FALSE
    ELSE LET times == SortedByBegin(self, other)
         IN  StructTimeLess(times[2].time_begin, times[1].time_end)

----------------------------------------------------------------------------
(* umich.Section: the JSON info of one section, and its properties. *)

Clock(I, M, p) == [I |-> I, M |-> M, p |-> p]

Section(subject, number, section_type, section_number, descr, location, days, begin, end) ==
    [SubjectCode |-> subject, CatalogNumber |-> number,
     SectionType |-> section_type, SectionNumber |-> section_number,
     CourseDescr |-> descr, Location |-> location, Days |-> days,
     Times |-> [begin |-> begin, end |-> end]]

\* Section.code, "{subject} {number}": the pair of its two parts.
code(section) == <<section.SubjectCode, section.CatalogNumber>>

\* Section.section, "{section_type} {section_number}"
section_label(section) == <<section.SectionType, section.SectionNumber>>

\* Section.meeting_time
meeting_time(section) == from_days_and_times(section.Days, section.Times)

----------------------------------------------------------------------------
(* umich.Building *)

\* EXTRA_ABBREVIATIONS: class location -> building abbreviation.
EXTRA_ABBREVIATIONS ==
    [loc \in {"GFL", "BEYSTER", "STAMPS"} |->
        CASE loc = "GFL" -> "GFLAB"
          [] loc = "BEYSTER" -> "BYSTR"
          [] loc = "STAMPS" -> "STAMP"]

\* The answers of the building API to "/Campuses" and "/Buildings".
TheBuildingAPI ==
    [Campuses  |-> <<"CENTRAL", "NORTH">>,
     Buildings |-> << [Abbreviation |-> "MH",    Campus |-> "CENTRAL"],
                      [Abbreviation |-> "UMMA",  Campus |-> "CENTRAL"],
                      [Abbreviation |-> "BBB",   Campus |-> "NORTH"],
                      [Abbreviation |-> "GFLAB", Campus |-> "NORTH"],
                      [Abbreviation |-> "AUD",   Campus |-> "NORTH"] >>]

\* A building API that knows no campus.
NoCampusAPI == [TheBuildingAPI EXCEPT !.Campuses = <<>>]

\* Does building j answer to the abbreviation section_building?
BuildingMatches(j, section_building) ==
    \/ j.Abbreviation = section_building
    \/ /\ section_building \in DOMAIN EXTRA_ABBREVIATIONS
       /\ j.Abbreviation = EXTRA_ABBREVIATIONS[section_building]

\* The inner loop of from_section: the first building that matches.
FirstMatch(buildings, section_building) ==
    LET hits == {k \in DOMAIN buildings :
                    BuildingMatches(buildings[k], section_building)}
    IN  IF hits = {} THEN [tag |-> "NoMatch"]
        ELSE [tag  |-> "Building",
              info |-> buildings[CHOOSE k \in hits : \A m \in hits : k <= m]]

\* Mutant: a building that is not found is treated like "ARR".
from_section_lenient(building_api, section) ==
    LET location == section.Location
        section_building ==
            IF \E w \in DOMAIN location : location[w] = "UMMA" THEN "UMMA"
            ELSE Last(location)
        found == FirstMatch(building_api.Buildings, section_building)
    IN  IF location = <<>> THEN [tag |-> "None"]
        ELSE IF Last(location) = "ARR" \/ section_building = "BUS"
             THEN [tag |-> "None"]
        ELSE IF building_api.Campuses = <<>> \/ found.tag = "NoMatch"
             THEN [tag |-> "None"]
        ELSE found

\* Building.from_section(building_api, section): a Building, None, or an
\* exception.  `"UMMA" in location` is taken word by word.
from_section(building_api, section) ==
    LET location == section.Location
        section_building ==
            IF \E w \in DOMAIN location : location[w] = "UMMA" THEN "UMMA"
            ELSE Last(location)
        found == FirstMatch(building_api.Buildings, section_building)
    IN  IF location = <<>> THEN [tag |-> "IndexError"]
        ELSE IF Last(location) = "ARR" THEN [tag |-> "None"]
        ELSE IF section_building = "BUS" THEN [tag |-> "None"]
        ELSE IF building_api.Campuses = <<>> \/ found.tag = "NoMatch"
             THEN [tag |-> "RuntimeError"]
        ELSE found

----------------------------------------------------------------------------
(* The class API's data: what a search for a class code answers. *)

MoWeFr == <<"M", "o", "W", "e", "F", "r">>
MoWe   == <<"M", "o", "W", "e">>
TuTh   == <<"T", "u", "T", "h">>
Tu     == <<"T", "u">>
Fr     == <<"F", "r">>

EECS281  == <<"EECS", "281">>
EECS370  == <<"EECS", "370">>
EECS376  == <<"EECS", "376">>
LATIN102 == <<"LATIN", "102">>
STATS412 == <<"STATS", "412">>
ARTDES100 == <<"ARTDES", "100">>

ClassCodes == {EECS281, EECS370, EECS376, LATIN102, STATS412, ARTDES100}

A1 == Section("EECS", "281", "LEC", "001", "Data Structures", <<"1200", "MH">>,
              MoWeFr, Clock(9, 0, "AM"), Clock(10, 0, "AM"))
A2 == Section("EECS", "281", "LEC", "002", "Data Structures", <<"UMMA", "AUD">>,
              MoWeFr, Clock(10, 0, "AM"), Clock(11, 0, "AM"))
B1 == Section("EECS", "370", "LEC", "001", "Computer Org", <<"ARR">>,
              MoWeFr, Clock(9, 30, "AM"), Clock(10, 30, "AM"))
B2 == Section("EECS", "370", "LEC", "002", "Computer Org", <<"1400", "MH">>,
              TuTh, Clock(2, 0, "PM"), Clock(3, 0, "PM"))
C1L == Section("EECS", "376", "LEC", "001", "Foundations", <<"1670", "BBB">>,
               MoWe, Clock(11, 15, "AM"), Clock(12, 15, "PM"))
C2L == Section("EECS", "376", "LEC", "002", "Foundations", <<"1670", "BBB">>,
               MoWe, Clock(11, 30, "AM"), Clock(12, 30, "PM"))
C1D == Section("EECS", "376", "DIS", "011", "Foundations", <<"GFL">>,
               Fr, Clock(1, 0, "PM"), Clock(2, 0, "PM"))
C2D == Section("EECS", "376", "DIS", "012", "Foundations", <<"1690", "BBB">>,
               Tu, Clock(3, 0, "PM"), Clock(4, 0, "PM"))
L1 == Section("LATIN", "1020", "REC", "001", "Latin Poetry", <<"ARR">>,
              TuTh, Clock(9, 0, "AM"), Clock(10, 0, "AM"))
S1 == Section("STATS", "412", "LEC", "001", "Intro Prob Stat", <<"BUS">>,
              TuTh, Clock(9, 0, "AM"), Clock(10, 0, "AM"))
S2 == Section("STATS", "412", "LEC", "002", "Intro Prob & Stat", <<"ARR">>,
              TuTh, Clock(10, 0, "AM"), Clock(11, 0, "AM"))
F1 == Section("ARTDES", "100", "LEC", "001", "Drawing", <<"BUS">>,
              Fr, Clock(12, 0, "PM"), Clock(1, 0, "PM"))
F2 == Section("ARTDES", "100", "LEC", "002", "Drawing", <<"2000", "XYZ">>,
              TuTh, Clock(12, 0, "PM"), Clock(1, 0, "PM"))

\* get_all_class_numbers + Section.from_class_number: the sections the search
\* for class_code finds, in the order of the answer.
SearchResult(class_code) ==
    CASE class_code = EECS281   -> <<A1, A2>>
      [] class_code = EECS370   -> <<B1, B2>>
      [] class_code = EECS376   -> <<C1L, C1D, C2D, C2L>>
      [] class_code = LATIN102  -> <<L1>>
      [] class_code = STATS412  -> <<S1, S2>>
      [] class_code = ARTDES100 -> <<F1, F2>>

----------------------------------------------------------------------------
(* umich.SectionGroup and Term.get_section_group *)

\* Mutant: the assertion on the names is missing.
SectionGroup_unchecked_names(section_list) ==
    IF Len(section_list) = 0 THEN [tag |-> "AssertionError"]
    ELSE [tag           |-> "SectionGroup",
          section_list  |-> section_list,
          section_name  |-> section_list[1].CourseDescr,
          section_types |-> {section_list[i].SectionType :
                                i \in DOMAIN section_list}]

\* Mutant: the assertion on an empty list is missing.
SectionGroup_unchecked_empty(section_list) ==
    IF Len(section_list) > 0 /\ \E i \in DOMAIN section_list :
            section_list[i].CourseDescr # section_list[1].CourseDescr
    THEN [tag |-> "AssertionError"]
    ELSE [tag           |-> "SectionGroup",
          section_list  |-> section_list,
          section_name  |-> IF Len(section_list) = 0 THEN "" 
                            ELSE section_list[1].CourseDescr,
          section_types |-> {section_list[i].SectionType :
                                i \in DOMAIN section_list}]

\* SectionGroup.__init__: the group, or the AssertionError of its asserts.
SectionGroup(section_list) ==
    LET section_types == {section_list[i].SectionType : i \in DOMAIN section_list}
    IN  IF Len(section_list) = 0 THEN [tag |-> "AssertionError"]
        ELSE IF \E i \in DOMAIN section_list :
                   section_list[i].CourseDescr # section_list[1].CourseDescr
             THEN [tag |-> "AssertionError"]
        ELSE IF section_types = {} THEN [tag |-> "AssertionError"]
        ELSE [tag           |-> "SectionGroup",
              section_list  |-> section_list,
              section_name  |-> section_list[1].CourseDescr,
              section_types |-> section_types]

\* Term.get_section_group(class_code)
get_section_group(class_code) ==
    LET HasCode(section) == code(section) = class_code
    IN  SectionGroup(SelectSeq(SearchResult(class_code), HasCode))

\* dict[key] = value on a dict kept as the sequence of its items.
DictSet(d, key, value) ==
    IF \E k \in DOMAIN d : d[k].key = key
    THEN [k \in DOMAIN d |->
            IF d[k].key = key THEN [key |-> key, value |-> value] ELSE d[k]]
    ELSE Append(d, [key |-> key, value |-> value])

RECURSIVE GetSectionGroupsFrom(_, _)
GetSectionGroupsFrom(section_groups, names) ==
    IF names = <<>> THEN [tag |-> "dict", items |-> section_groups]
    ELSE LET group == get_section_group(Head(names))
         IN  IF group.tag # "SectionGroup" THEN [tag |-> group.tag]
             ELSE GetSectionGroupsFrom(
                      DictSet(section_groups, Head(names), group), Tail(names))

\* ClassPicker._get_section_groups
get_section_groups(names) == GetSectionGroupsFrom(<<>>, names)

----------------------------------------------------------------------------
(* ClassPicker._get_section_choices *)

\* The orders in which a process iterates a set of section-type strings: the
\* order of the hashes, which the interpreter draws afresh for each process.
Seeds == { <<"LEC", "DIS">>, <<"DIS", "LEC">> }

\* iter(set) of a set of strings in a process whose hash order is s.
SetOrder(s, S) == LET In(x) == x \in S IN SelectSeq(s, In)

\* Mutant: one choice list per section group, whatever the section types.
GroupChoices_per_group(s, section_group) ==
    << section_group.section_list >>

\* The choice lists of one section group, one per section type.
GroupChoices(s, section_group) ==
    LET types == SetOrder(s, section_group.section_types)
    IN  [t \in DOMAIN types |->
            LET HasType(i) == i.SectionType = types[t]
            IN  SelectSeq(section_group.section_list, HasType)]

get_section_choices(s, section_groups) ==
    Concat([g \in DOMAIN section_groups |->
                GroupChoices(s, section_groups[g].value)])

----------------------------------------------------------------------------
(* itertools.product over the choice lists *)

\* The index of a product that has no further candidate.  (An index of the
\* product of at least one list has at least one entry.)
Exhausted == <<>>

\* The index of the first candidate; Exhausted when there is none.
FirstPos(choices) ==
    IF \E i \in DOMAIN choices : Len(choices[i]) = 0 THEN Exhausted
    ELSE [i \in DOMAIN choices |-> 1]

\* Mutant: the last candidate of the product is lost.
NextPos_stops_early(choices, p) ==
    LET movable == {i \in DOMAIN choices : p[i] < Len(choices[i])}
        m == CHOOSE i \in movable : \A j \in movable : j <= i
        n == [i \in DOMAIN choices |->
                IF i > m THEN 1 ELSE IF i = m THEN p[i] + 1 ELSE p[i]]
    IN  IF movable = {} THEN Exhausted
        ELSE IF \A i \in DOMAIN choices : n[i] = Len(choices[i])
             THEN Exhausted
        ELSE n

\* The index after p: the last list varies fastest.
NextPos(choices, p) ==
    LET movable == {i \in DOMAIN choices : p[i] < Len(choices[i])}
    IN  IF movable = {} THEN Exhausted
        ELSE LET m == CHOOSE i \in movable : \A j \in movable : j <= i
             IN  [i \in DOMAIN choices |->
                    IF i > m THEN 1 ELSE IF i = m THEN p[i] + 1 ELSE p[i]]

\* The candidate at index p.
CandidateAt(choices, p) == [i \in DOMAIN choices |-> choices[i][p[i]]]

----------------------------------------------------------------------------
(* The predicates of pick_sections *)

\* times_dont_overlap(candidate): no pair of itertools.combinations conflicts.
times_dont_overlap(candidate) ==
    LET pairs == combinations2(candidate)
    IN  \A k \in DOMAIN pairs :
            ~ conflicts_with(meeting_time(candidate[pairs[k][1]]),
                             meeting_time(candidate[pairs[k][2]]))

\* Mutant: a gap of exactly TIME_BETWEEN_CAMPUSES fails (<= for <).
PairCheck_strict(building_api, s1, s2) ==
    LET s1_building == from_section(building_api, s1)
        s2_building == from_section(building_api, s2)
        ordered == SortedByBegin(meeting_time(s1), meeting_time(s2))
    IN  IF s1_building.tag \notin {"Building", "None"} THEN s1_building.tag
        ELSE IF s2_building.tag \notin {"Building", "None"} THEN s2_building.tag
        ELSE IF s1_building.tag = "None" \/ s2_building.tag = "None"
             THEN "continue"
        ELSE IF s1_building.info.Campus = s2_building.info.Campus
             THEN "continue"
        ELSE IF SeqToSet(meeting_time(s1).day_list)
                    \cap SeqToSet(meeting_time(s2).day_list) = {}
             THEN "continue"
        ELSE IF time_difference(ordered[1].time_end, ordered[2].time_begin)
                    <= TIME_BETWEEN_CAMPUSES
             THEN "False"
        ELSE "continue"

\* One round of the loop of buildings_arent_too_far_away, for the pair
\* (s1, s2): "continue", "False" (return False) or the exception raised.
PairCheck(building_api, s1, s2) ==
    LET s1_building == from_section(building_api, s1)
        s2_building == from_section(building_api, s2)
        ordered == SortedByBegin(meeting_time(s1), meeting_time(s2))
    IN  IF s1_building.tag \notin {"Building", "None"} THEN s1_building.tag
        ELSE IF s2_building.tag \notin {"Building", "None"} THEN s2_building.tag
        ELSE IF s1_building.tag = "None" \/ s2_building.tag = "None"
             THEN "continue"
        ELSE IF s1_building.info.Campus = s2_building.info.Campus
             THEN "continue"
        ELSE IF SeqToSet(meeting_time(s1).day_list)
                    \cap SeqToSet(meeting_time(s2).day_list) = {}
             THEN "continue"
        ELSE IF time_difference(ordered[1].time_end, ordered[2].time_begin)
                    < TIME_BETWEEN_CAMPUSES
             THEN "False"
        ELSE "continue"

RECURSIVE CheckPairs(_, _, _)
CheckPairs(building_api, candidate, pairs) ==
    IF pairs = <<>> THEN "True"
    ELSE LET round == PairCheck(building_api, candidate[Head(pairs)[1]],
                                candidate[Head(pairs)[2]])
         IN  IF round = "continue"
             THEN CheckPairs(building_api, candidate, Tail(pairs))
             ELSE round

\* buildings_arent_too_far_away(candidate): "True", "False" or the exception.
buildings_arent_too_far_away(building_api, candidate) ==
    CheckPairs(building_api, candidate, combinations2(candidate))

----------------------------------------------------------------------------
(* example.py: the criteria *)

\* LUNCH and SLEEP of example.py, the latter with its days as written there.
LUNCH ==
    from_days_and_times(<<"M", "o", "T", "u", "W", "e", "T", "h", "F", "r">>,
                        [begin |-> Clock(11, 0, "AM"), end |-> Clock(12, 0, "PM")])
SLEEP ==
    from_days_and_times(<<"M", "o", "T", "u", "W", "e", "T", "h", "r", "F", "r">>,
                        [begin |-> Clock(1, 0, "AM"), end |-> Clock(10, 0, "AM")])

TimePeriods == {LUNCH, SLEEP}

\* doesnt_conflict_with(time_period)(candidate)
doesnt_conflict_with(time_period, candidate) ==
    ~ \E i \in DOMAIN candidate :
        conflicts_with(meeting_time(candidate[i]), time_period)

\* The registry's evaluation: every registered criterion accepts the candidate.
evaluate(registry, candidate) ==
    \A k \in DOMAIN registry : doesnt_conflict_with(registry[k], candidate)

\* Mutant: the overlap test is left out of the filter chain.
Verdict_no_overlap_test(building_api, registry, candidate) ==
    LET far == buildings_arent_too_far_away(building_api, candidate)
    IN  IF far \notin {"True", "False"} THEN far
        ELSE IF far = "False" THEN "drop"
        ELSE IF ~ evaluate(registry, candidate) THEN "drop"
        ELSE "keep"

\* The conditions of the comprehension of pick_sections for one candidate,
\* in order: "keep", "drop", or the exception a condition raises.
Verdict(building_api, registry, candidate) ==
    IF ~ times_dont_overlap(candidate) THEN "drop"
    ELSE LET far == buildings_arent_too_far_away(building_api, candidate)
             again == buildings_arent_too_far_away(building_api, candidate)
         IN  IF far \notin {"True", "False"} THEN far
             ELSE IF far = "False" THEN "drop"
             ELSE IF again \notin {"True", "False"} THEN again
             ELSE IF again = "False" THEN "drop"
             ELSE IF ~ evaluate(registry, candidate) THEN "drop"
             ELSE "keep"

----------------------------------------------------------------------------
(* ClassPicker.pick_sections *)

\* What a pick_sections call ends with: "returned" with the list of
\* schedules, or the exception that left it.  choices is the list of choice
\* lists the call built.
Ended(outcome, schedules, choices) ==
    [outcome |-> outcome, schedules |-> schedules, choices |-> choices]

\* The comprehension from index p on, sofar being the list built so far.
RECURSIVE Comprehension(_, _, _, _, _)
Comprehension(building_api, registry, choices, p, sofar) ==
    IF p = Exhausted THEN Ended("returned", sofar, choices)
    ELSE LET candidate == CandidateAt(choices, p)
             verdict == Verdict(building_api, registry, candidate)
         IN  IF verdict \notin {"keep", "drop"}
             THEN Ended(verdict, <<>>, choices)
             ELSE Comprehension(building_api, registry, choices,
                      NextPos(choices, p),
                      IF verdict = "keep" THEN Append(sofar, candidate)
                      ELSE sofar)

\* One evaluation of a condition of the comprehension: the predicate and
\* what it returned, or the exception it raised.
Evaluation(predicate, result) == [predicate |-> predicate, result |-> result]

\* The conditions of the comprehension that are evaluated for one candidate,
\* in the order of their evaluation: a condition is evaluated when every
\* condition before it was true.
Conditions(building_api, registry, candidate) ==
    LET overlap == Evaluation("times_dont_overlap",
                       IF times_dont_overlap(candidate) THEN "True" ELSE "False")
        far == Evaluation("buildings_arent_too_far_away",
                   buildings_arent_too_far_away(building_api, candidate))
        again == Evaluation("buildings_arent_too_far_away",
                     buildings_arent_too_far_away(building_api, candidate))
        registered == Evaluation("evaluate",
                          IF evaluate(registry, candidate) THEN "True"
                          ELSE "False")
    IN  IF overlap.result # "True" THEN <<overlap>>
        ELSE IF far.result # "True" THEN <<overlap, far>>
        ELSE IF again.result # "True" THEN <<overlap, far, again>>
        ELSE <<overlap, far, again, registered>>

\* pick_sections(section_group_names, season) of a ClassPicker whose registry
\* is registry, in a process whose hash order is s.
pick_sections(s, registry, names) ==
    LET section_groups == get_section_groups(names)
        choices == get_section_choices(s, section_groups.items)
    IN  IF section_groups.tag # "dict"
        THEN Ended(section_groups.tag, <<>>, <<>>)
        ELSE Comprehension(TheBuildingAPI, registry, choices,
                           FirstPos(choices), <<>>)

----------------------------------------------------------------------------
(* Strings as the renderer sees them: sequences of characters *)

\* The characters of the words of the class data.
Characters(word) ==
    CASE word = "EECS" -> <<"E", "E", "C", "S">>
      [] word = "A"    -> <<"A">>
      [] word = "281"  -> <<"2", "8", "1">>
      [] word = "1"    -> <<"1">>
      [] word = "LEC"  -> <<"L", "E", "C">>
      [] word = "DIS"  -> <<"D", "I", "S">>
      [] word = "001"  -> <<"0", "0", "1">>
      [] word = "011"  -> <<"0", "1", "1">>

\* "{} {}".format(words[1], words[2]): Section.code and Section.section as
\* the strings they are.
Text(words) == Characters(words[1]) \o <<" ">> \o Characters(words[2])

\* time.gmtime(timestamp), a time of day in seconds.
gmtime(timestamp) ==
    [tm_hour |-> (timestamp \div 3600) % 24, tm_min |-> (timestamp \div 60) % 60]

\* A number below 100 in two digits, as %I and %M print it.
TwoDigits(n) ==
    LET digits == <<"0", "1", "2", "3", "4", "5", "6", "7", "8", "9">>
    IN  <<digits[(n \div 10) + 1], digits[(n % 10) + 1]>>

\* time.strftime(" %I:%M %p", t)
strftime(t) ==
    <<" ">> \o TwoDigits(((t.tm_hour + 11) % 12) + 1) \o <<":">>
            \o TwoDigits(t.tm_min) \o <<" ">>
            \o (IF t.tm_hour < 12 THEN <<"A", "M">> ELSE <<"P", "M">>)

\* timedelta.seconds of a timedelta of so many minutes: the seconds within
\* the day, the days being another field.
seconds(timedelta) == (timedelta * 60) % 86400

----------------------------------------------------------------------------
(* ClassPicker.ScheduleCanvas *)

DAYS == << <<"M", "o">>, <<"T", "u">>, <<"W", "e">>, <<"T", "h">>, <<"F", "r">> >>
RESOLUTION == 30 * 60
BLOCK_HEIGHT == 4
NUM_BLOCKS == 24
START_TIME == 8 * 60 * 60
BLOCK_PADDING == 2

\* list[k] of a list of n items: the place of the item, counted from 1, a
\* negative k counting from the end; 0 when the list raises IndexError.
ListIndex(n, k) ==
    IF k \in 0..(n - 1) THEN k + 1
    ELSE IF k \in (-n)..(-1) THEN n + k + 1
    ELSE 0

\* An exception leaves the method; the calls after it do nothing.
Raise(self, exception) == [self EXCEPT !.raised = exception]

\* A method of the canvas is called: touched is the set of the indexes the
\* last call used on the canvas.
Called(self) == [self EXCEPT !.touched = {}]

\* The index point is used on the canvas.
Touch(self, point) == [self EXCEPT !.touched = @ \cup {point}]

\* self.canvas[row][column] does not raise.
InCanvas(self, point) ==
    /\ ListIndex(self.height, point[1]) # 0
    /\ ListIndex(self.width, point[2]) # 0

\* ScheduleCanvas.__getitem__, for an index in the canvas.
getitem(self, point) ==
    self.canvas[ListIndex(self.height, point[1])][ListIndex(self.width, point[2])]

\* ScheduleCanvas.__setitem__
setitem(self, point, value) ==
    IF self.raised # "" THEN self
    ELSE IF ~ InCanvas(self, point) THEN Raise(Touch(self, point), "IndexError")
    ELSE [Touch(self, point) EXCEPT
             !.canvas[ListIndex(self.height, point[1])]
                     [ListIndex(self.width, point[2])] = value]

\* (row, column) < (row, column): tuple comparison.
PointLess(p, q) == p[1] < q[1] \/ (p[1] = q[1] /\ p[2] < q[2])

line_characters(d_row, d_column) ==
    CASE d_row = 1 /\ d_column = 0 -> "|"
      [] d_row = 0 /\ d_column = 1 -> "-"
      [] d_row = 1 /\ d_column = 1 -> "\\"

\* The smallest number of a non-empty set of numbers.
Least(S) == CHOOSE k \in S : \A j \in S : k <= j

\* Mutant: the loop draws its character whatever the cell holds.
LineCell_overwrites(held, character) == character

\* if self[current_point] != "+": self[current_point] = character, as what
\* the cell holds afterwards.
LineCell(held, character) == IF held # "+" THEN character ELSE held

\* The while loop of _draw_line from start_point to end_point, by the points
\* it comes to: the k-th round comes to start_point + k * (d_row, d_column),
\* and the loop ends when that is end_point, or with the IndexError of the
\* first point that is no index of the canvas.  As long as the points are on
\* the canvas a coordinate grows with every round, so there are no more
\* rounds than twice the canvas's rows and columns.
draw_line_loop(self, start_point, end_point) ==
    IF self.raised # "" \/ start_point = end_point THEN self
    ELSE LET d_row == IF start_point[1] < end_point[1] THEN 1 ELSE 0
             d_column == IF start_point[2] < end_point[2] THEN 1 ELSE 0
             Point(k) == <<start_point[1] + (k * d_row),
                           start_point[2] + (k * d_column)>>
             rounds == 1..((2 * (self.height + self.width)) + 1)
             leaves == {k \in rounds : ~ InCanvas(self, Point(k))}
             arrives == {k \in rounds : Point(k) = end_point}
             ends == arrives # {} /\ Least(arrives) < Least(leaves)
             drawn == IF ends THEN 1..Least(arrives)
                      ELSE 1..(Least(leaves) - 1)
             cells == {<<ListIndex(self.height, Point(k)[1]),
                         ListIndex(self.width, Point(k)[2])>> : k \in drawn}
         IN  IF d_row = 0 /\ d_column = 0 THEN Raise(self, "AssertionError")
             ELSE [self EXCEPT
                     !.canvas = [row \in 1..self.height |->
                                  [column \in 1..self.width |->
                                    IF <<row, column>> \in cells
                                    THEN LineCell(self.canvas[row][column],
                                             line_characters(d_row, d_column))
                                    ELSE self.canvas[row][column]]],
                     !.touched = @ \cup {Point(k) : k \in drawn}
                                   \cup (IF ends THEN {}
                                         ELSE {Point(Least(leaves))}),
                     !.raised = IF ends THEN "" ELSE "IndexError"]

\* ScheduleCanvas._draw_line
draw_line(self, start_point, end_point) ==
    LET first == IF PointLess(end_point, start_point) THEN end_point
                 ELSE start_point
        second == IF PointLess(end_point, start_point) THEN start_point
                  ELSE end_point
        drawn == draw_line_loop(self, first, second)
    IN  setitem(setitem(drawn, first, "+"), second, "+")

\* ScheduleCanvas._draw_box
draw_box(self, top_left, bottom_right) ==
    LET top_right == <<top_left[1], bottom_right[2]>>
        bottom_left == <<bottom_right[1], top_left[2]>>
    IN  draw_line(
            draw_line(
                draw_line(
                    draw_line(self, top_left, top_right),
                    top_left, bottom_left),
                bottom_left, bottom_right),
            top_right, bottom_right)

\* ScheduleCanvas._draw_string, by the points it comes to: the k-th character
\* goes to the k-th column from point on, until the string ends or a point is
\* no index of the canvas (IndexError); string[0] of an empty string raises.
draw_string(self, point, string) ==
    IF self.raised # "" THEN self
    ELSE IF string = <<>> THEN Raise(self, "IndexError")
    ELSE LET Point(k) == <<point[1], point[2] + (k - 1)>>
             leaves == {k \in DOMAIN string : ~ InCanvas(self, Point(k))}
             written == IF leaves = {} THEN DOMAIN string
                        ELSE 1..(Least(leaves) - 1)
             row == ListIndex(self.height, point[1])
             At(column) ==
                 {k \in written : ListIndex(self.width, Point(k)[2]) = column}
         IN  [self EXCEPT
                 !.canvas = IF written = {} THEN @
                            ELSE [@ EXCEPT ![row] =
                                   [column \in 1..self.width |->
                                     IF At(column) # {}
                                     THEN string[CHOOSE k \in At(column) :
                                                   \A j \in At(column) : j <= k]
                                     ELSE self.canvas[row][column]]],
                 !.touched = @ \cup {Point(k) : k \in written}
                               \cup (IF leaves = {} THEN {}
                                     ELSE {Point(Least(leaves))}),
                 !.raised = IF leaves = {} THEN "" ELSE "IndexError"]

\* The canvas of the constructor before anything is drawn: width spaces in
\* each of height rows.
Blank(height, width) == [row \in 1..height |-> [column \in 1..width |-> " "]]

\* The time markers of the constructor, from block i on.
RECURSIVE draw_time_markers(_, _)
draw_time_markers(self, i) ==
    IF i = NUM_BLOCKS THEN self
    ELSE draw_time_markers(
             draw_string(self, <<i * BLOCK_HEIGHT, self.frame_width>>,
                         strftime(gmtime(START_TIME + (i * RESOLUTION)))),
             i + 1)

\* ScheduleCanvas.__init__
ScheduleCanvas(maximum_section_length) ==
    LET column_width == maximum_section_length + (2 * BLOCK_PADDING)
        frame_width == (column_width * Len(DAYS)) + 1
        frame_height == BLOCK_HEIGHT * NUM_BLOCKS
        time_width == 8 + 1
        self == [column_width |-> column_width,
                 frame_width  |-> frame_width,
                 frame_height |-> frame_height,
                 time_width   |-> time_width,
                 width        |-> frame_width + time_width,
                 height       |-> frame_height,
                 canvas       |-> Blank(frame_height, frame_width + time_width),
                 raised       |-> "",
                 touched      |-> {}]
    IN  draw_time_markers(
            draw_box(self, <<0, 0>>, <<frame_height - 1, frame_width - 1>>), 0)

\* seconds_to_blocks of add_section
seconds_to_blocks(secs) == (secs \div RESOLUTION) * BLOCK_HEIGHT

\* DAYS.index(day), counted from 1; 0 when it raises ValueError.
DAYS_index(day) ==
    IF \E d \in DOMAIN DAYS : DAYS[d] = day
    THEN CHOOSE d \in DOMAIN DAYS : DAYS[d] = day
    ELSE 0

\* The loop of add_section over the days that are left.
RECURSIVE add_section_days(_, _, _)
add_section_days(self, section, days) ==
    IF self.raised # "" \/ days = <<>> THEN self
    ELSE IF DAYS_index(Head(days)) = 0 THEN Raise(self, "ValueError")
    ELSE LET top_left ==
                 <<seconds_to_blocks(seconds(time_difference(
                       gmtime(START_TIME), meeting_time(section).time_begin))),
                   self.column_width * (DAYS_index(Head(days)) - 1)>>
             bottom_right ==
                 <<top_left[1]
                       + seconds_to_blocks(seconds(length(meeting_time(section)))),
                   top_left[2] + self.column_width>>
             row == (top_left[1] + bottom_right[1]) \div 2
             column == top_left[2] + BLOCK_PADDING
         IN  add_section_days(
                 draw_string(
                     draw_string(draw_box(self, top_left, bottom_right),
                                 <<row - 1, column>>, Text(code(section))),
                     <<row, column>>, Text(section_label(section))),
                 section, Tail(days))

\* ScheduleCanvas.add_section
add_section(self, section) ==
    add_section_days(Called(self), section, meeting_time(section).day_list)

\* max(len(i.code) for i in schedule) of print_schedule, for a schedule of at
\* least one section.
longest_code_length(schedule) ==
    CHOOSE n \in {Len(Text(code(schedule[k]))) : k \in DOMAIN schedule} :
        \A k \in DOMAIN schedule : Len(Text(code(schedule[k]))) <= n

----------------------------------------------------------------------------
(* The program: a ClassPicker, its registry and its pick_sections calls *)

\* The lists of class codes a user may ask for.
NameLists == UNION {[1..n -> ClassCodes] : n \in 1..MaxCourses}

\* No ScheduleCanvas has been made yet.
NoCanvas ==
    [column_width |-> 0, frame_width |-> 0, frame_height |-> 0,
     time_width |-> 0, width |-> 0, height |-> 0, canvas |-> <<>>,
     raised |-> "", touched |-> {}]

\* No call of pick_sections has ended yet.
NoCall == [call_ended |-> Ended("none", <<>>, <<>>), criteria |-> <<>>]

Init ==
    /\ section_group_names \in NameLists
    /\ seed \in Seeds
    /\ criteria = <<>>
    /\ pc = "ready"
    /\ last = NoCall
    /\ call = <<>>
    /\ ret = <<>>
    /\ canvas = NoCanvas
    /\ todo = <<>>

\* Mutant: registering a criterion filters the schedules already returned.
AddCriterion_refilters(time_period) ==
    /\ pc = "ready"
    /\ Len(criteria) < MaxCriteria
    /\ criteria' = Append(criteria, time_period)
    /\ last' = [last EXCEPT !.call_ended.schedules =
                    LET Accepts(candidate) ==
                            doesnt_conflict_with(time_period, candidate)
                    IN  SelectSeq(@, Accepts)]
    /\ UNCHANGED <<section_group_names, seed, pc, call, ret, canvas, todo>>

\* add_criterion(predicate)
AddCriterion(time_period) ==
    /\ pc = "ready"
    /\ Len(criteria) < MaxCriteria
    /\ criteria' = Append(criteria, time_period)
    /\ UNCHANGED <<section_group_names, seed, pc, last, call, ret, canvas, todo>>

\* schedules = class_picker.pick_sections(section_group_names, season): the
\* call ends and is recorded with the registry it ran with; an exception is
\* not caught and ends the process.
PickSections ==
    /\ pc = "ready"
    /\ LET ended == pick_sections(seed, criteria, section_group_names)
       IN  /\ last' = [call_ended |-> ended, criteria |-> criteria]
           /\ pc' = IF ended.outcome = "returned" THEN "ready" ELSE "crashed"
    /\ UNCHANGED <<section_group_names, seed, criteria, call, ret, canvas, todo>>

\* The program is started again, on the same class data (the cache file):
\* a new process with its own hash order and a new ClassPicker.
NewProcess ==
    /\ last # NoCall
    /\ seed' \in Seeds
    /\ criteria' = <<>>
    /\ pc' = "ready"
    /\ UNCHANGED <<section_group_names, last, call, ret, canvas, todo>>

Next ==
    \/ \E time_period \in TimePeriods : AddCriterion(time_period)
    \/ PickSections
    \/ NewProcess

Spec == Init /\ [][Next]_vars

----------------------------------------------------------------------------
(* Single functions applied to drawn arguments.  The program's variables   *)
(* stay as they are before the program starts.                             *)

NoProgram ==
    /\ section_group_names = <<>>
    /\ seed = <<>>
    /\ criteria = <<>>
    /\ last = NoCall
    /\ canvas = NoCanvas
    /\ todo = <<>>

\* The function named by pc is applied to call and returns result.
Apply(function, result) ==
    /\ pc = function
    /\ ret = <<>>
    /\ ret' = <<result>>
    /\ UNCHANGED <<section_group_names, seed, criteria, pc, last, call, canvas,
                   todo>>

\* The time of day 9:00 + k * 15 minutes, as a struct_time and as read from
\* a 12-hour clock.
SlotTime(k) == [tm_hour |-> 9 + (k * 15) \div 60, tm_min |-> (k * 15) % 60]
SlotClock(k) ==
    LET t == SlotTime(k)
    IN  Clock(IF t.tm_hour > 12 THEN t.tm_hour - 12 ELSE t.tm_hour, t.tm_min,
              IF t.tm_hour >= 12 THEN "PM" ELSE "AM")

(* MeetingTime.conflicts_with on any two meeting times. *)

DayMo == <<"M", "o">>
DayTu == <<"T", "u">>

\* Day lists, among them the one from_days_and_times makes of an empty Days.
DayLists == { <<DayMo>>, <<DayTu>>, <<DayMo, DayTu>>, << <<>> >> }

\* Meeting times as the constructor takes them: begin and end are not compared.
MeetingTimes ==
    {MeetingTime(d, SlotTime(b), SlotTime(e)) :
        d \in DayLists, b \in 0..MaxSlot, e \in 0..MaxSlot}

InitMeetingTime ==
    /\ NoProgram
    /\ pc = "conflicts_with"
    /\ call \in [self : MeetingTimes, other : MeetingTimes]
    /\ ret = <<>>

ApplyConflictsWith == Apply("conflicts_with", conflicts_with(call.self, call.other))

SpecMeetingTime == InitMeetingTime /\ [][ApplyConflictsWith]_vars

(* SectionGroup on any list of sections. *)

GroupSections ==
    {Section("EECS", "281", t, "001", n, <<"ARR">>, MoWe,
             Clock(9, 0, "AM"), Clock(10, 0, "AM")) :
        t \in {"LEC", "DIS"}, n \in {"Data Structures", "Data Structs"}}

SectionLists == UNION {[1..n -> GroupSections] : n \in 0..MaxSections}

InitSectionGroup ==
    /\ NoProgram
    /\ pc = "SectionGroup"
    /\ call \in [section_list : SectionLists]
    /\ ret = <<>>

ApplySectionGroup == Apply("SectionGroup", SectionGroup(call.section_list))

SpecSectionGroup == InitSectionGroup /\ [][ApplySectionGroup]_vars

(* Building.from_section on any location. *)

LocationWords == {"ARR", "UMMA", "BUS", "AUD", "MH", "GFL", "XYZ", "1670"}

Locations == UNION {[1..n -> LocationWords] : n \in 0..MaxWords}

\* A section that takes place at location.
SectionAt(location) ==
    Section("EECS", "281", "LEC", "001", "Data Structures", location, MoWe,
            Clock(9, 0, "AM"), Clock(10, 0, "AM"))

InitBuilding ==
    /\ NoProgram
    /\ pc = "from_section"
    /\ call \in [building_api : {TheBuildingAPI, NoCampusAPI},
                 location : Locations]
    /\ ret = <<>>

ApplyFromSection ==
    Apply("from_section",
          from_section(call.building_api, SectionAt(call.location)))

SpecBuilding == InitBuilding /\ [][ApplyFromSection]_vars

(* buildings_arent_too_far_away on any candidate of two or three sections. *)

\* Sections of a quarter of an hour, on either campus, with no location
\* assigned, or in a building the API does not know.
TravelSections ==
    {Section("EECS", "281", "LEC", "001", "Data Structures", l, d,
             SlotClock(b), SlotClock(b + 1)) :
        l \in { <<"MH">>, <<"BBB">>, <<"ARR">>, <<"XYZ">> },
        d \in {DayMo, DayTu},
        b \in 0..MaxBegin}

\* Three sections make the least candidate in which one pair is checked
\* after another.
CandidateSizes == {2, 3}

Candidates == UNION {[1..n -> TravelSections] : n \in CandidateSizes}

InitTravel ==
    /\ NoProgram
    /\ pc = "buildings_arent_too_far_away"
    /\ call \in [candidate : Candidates]
    /\ ret = <<>>

ApplyBuildingsArentTooFarAway ==
    Apply("buildings_arent_too_far_away",
          buildings_arent_too_far_away(TheBuildingAPI, call.candidate))

SpecTravel == InitTravel /\ [][ApplyBuildingsArentTooFarAway]_vars

----------------------------------------------------------------------------
(* print_schedule on any schedule of a few sections *)

\* A section of the renderer's schedules: the code's words, the section
\* label's words, the days and the times.
RenderSection(subject, number, section_type, section_number, days, begin, end) ==
    Section(subject, number, section_type, section_number, "Data Structures",
            <<"ARR">>, days, begin, end)

R1 == RenderSection("EECS", "281", "LEC", "001", <<"M", "o">>,
                    Clock(9, 0, "AM"), Clock(10, 0, "AM"))
R2 == RenderSection("EECS", "281", "DIS", "011", MoWe,
                    Clock(9, 30, "AM"), Clock(11, 0, "AM"))
R3 == RenderSection("EECS", "281", "LEC", "001", Fr,
                    Clock(7, 0, "PM"), Clock(8, 0, "PM"))
R4 == RenderSection("A", "1", "LEC", "001", Fr,
                    Clock(8, 0, "AM"), Clock(9, 0, "AM"))
R5 == RenderSection("EECS", "281", "LEC", "001", <<"M", "o">>,
                    Clock(8, 0, "AM"), Clock(8, 20, "AM"))
R6 == RenderSection("A", "1", "DIS", "011", Tu,
                    Clock(6, 30, "PM"), Clock(7, 30, "PM"))
R7 == RenderSection("EECS", "281", "LEC", "001", TuTh,
                    Clock(7, 0, "AM"), Clock(8, 0, "AM"))

RenderSections == {R1, R2, R3, R4, R5, R6, R7}

\* The schedules print_schedule is given: candidates of pick_sections have
\* at least one section.
RenderSchedules == UNION {[1..n -> RenderSections] : n \in 1..MaxScheduleLength}

InitRender ==
    /\ NoProgram
    /\ pc = "print_schedule"
    /\ call \in [schedule : RenderSchedules]
    /\ ret = <<>>

\* canvas = ClassPicker.ScheduleCanvas(longest_code_length)
NewCanvas ==
    /\ pc = "print_schedule"
    /\ canvas' = ScheduleCanvas(longest_code_length(call.schedule))
    /\ todo' = call.schedule
    /\ pc' = "add_section"
    /\ UNCHANGED <<section_group_names, seed, criteria, last, call, ret>>

\* canvas.add_section(i), for the next section i of the schedule; an
\* exception is not caught and ends print_schedule.
AddSection ==
    /\ pc = "add_section"
    /\ todo # <<>>
    /\ canvas' = add_section(canvas, Head(todo))
    /\ todo' = Tail(todo)
    /\ pc' = IF canvas'.raised = "" THEN "add_section" ELSE "crashed"
    /\ UNCHANGED <<section_group_names, seed, criteria, last, call, ret>>

\* canvas.print(): the rows of the canvas are the output.
PrintCanvas ==
    /\ pc = "add_section"
    /\ todo = <<>>
    /\ ret' = <<canvas.canvas>>
    /\ pc' = "printed"
    /\ UNCHANGED <<section_group_names, seed, criteria, last, call, canvas, todo>>

NextRender == NewCanvas \/ AddSection \/ PrintCanvas

SpecRender == InitRender /\ [][NextRender]_vars

(* _draw_line and _draw_box on a canvas of two rows, in any sequence. *)

\* The points of a canvas of two rows and MaxColumn + 1 columns.
DrawPoints == (0..1) \X (0..MaxColumn)

\* The corners of the boxes: a top left and a bottom right point.
DrawCorners ==
    {corners \in DrawPoints \X DrawPoints :
        /\ corners[1][1] <= corners[2][1]
        /\ corners[1][2] <= corners[2][2]}

\* call is the sequence of the calls made on the canvas.
InitDraw ==
    /\ section_group_names = <<>>
    /\ seed = <<>>
    /\ criteria = <<>>
    /\ last = NoCall
    /\ todo = <<>>
    /\ pc = "draw"
    /\ call = <<>>
    /\ ret = <<>>
    /\ canvas = [NoCanvas EXCEPT !.width = MaxColumn + 1, !.height = 2,
                                 !.canvas = Blank(2, MaxColumn + 1)]

\* self._draw_line(start_point, end_point); an exception ends the drawing.
DrawLine(start_point, end_point) ==
    /\ pc = "draw"
    /\ Len(call) < MaxDraws
    /\ canvas.raised = ""
    /\ canvas' = draw_line(Called(canvas), start_point, end_point)
    /\ call' = Append(call, <<"_draw_line", start_point, end_point>>)
    /\ UNCHANGED <<section_group_names, seed, criteria, pc, last, ret, todo>>

\* self._draw_box(top_left, bottom_right)
DrawBox(top_left, bottom_right) ==
    /\ pc = "draw"
    /\ Len(call) < MaxDraws
    /\ canvas.raised = ""
    /\ canvas' = draw_box(Called(canvas), top_left, bottom_right)
    /\ call' = Append(call, <<"_draw_box", top_left, bottom_right>>)
    /\ UNCHANGED <<section_group_names, seed, criteria, pc, last, ret, todo>>

NextDraw ==
    \/ \E start_point, end_point \in DrawPoints : DrawLine(start_point, end_point)
    \/ \E corners \in DrawCorners : DrawBox(corners[1], corners[2])

SpecDraw == InitDraw /\ [][NextDraw]_vars

----------------------------------------------------------------------------
(* Claims about pick_sections, under Spec *)

\* The call of pick_sections that ended last, if it returned.
Returned == last.call_ended.outcome = "returned"
Schedules == last.call_ended.schedules
Choices == last.call_ended.choices

\* Two sections of a candidate meet at conflicting times.
HasOverlap(candidate) ==
    \E i, j \in DOMAIN candidate :
        /\ i < j
        /\ conflicts_with(meeting_time(candidate[i]), meeting_time(candidate[j]))

\* The indexes of the Cartesian product of the choice lists, and their
\* lexicographic order, in which the last list varies fastest.
ProductIndexes(choices) ==
    LET longest == IF choices = <<>> THEN 0
                   ELSE CHOOSE n \in {Len(choices[i]) : i \in DOMAIN choices} :
                            \A i \in DOMAIN choices : Len(choices[i]) <= n
    IN  {p \in [DOMAIN choices -> 1..longest] :
            \A i \in DOMAIN choices : p[i] <= Len(choices[i])}

LexLess(p, q) ==
    \E i \in DOMAIN p : p[i] < q[i] /\ \A j \in DOMAIN p : j < i => p[j] = q[j]

\* The candidates of the product that pass every check of the last call.
PassingIndexes ==
    {p \in ProductIndexes(Choices) :
        LET candidate == CandidateAt(Choices, p)
        IN  /\ ~ HasOverlap(candidate)
            /\ buildings_arent_too_far_away(TheBuildingAPI, candidate) = "True"
            /\ \A k \in DOMAIN last.criteria :
                   doesnt_conflict_with(last.criteria[k], candidate)}

\* C1: every candidate pick_sections returns has no two sections with
\* conflicting meeting times, satisfies the cross-campus travel predicate, and
\* satisfies every criterion that was registered when the search began.
C1_ReturnedCandidatesPass ==
    Returned =>
        \A n \in DOMAIN Schedules :
            /\ ~ HasOverlap(Schedules[n])
            /\ buildings_arent_too_far_away(TheBuildingAPI, Schedules[n]) = "True"
            /\ \A k \in DOMAIN last.criteria :
                   doesnt_conflict_with(last.criteria[k], Schedules[n])

\* A search with a criterion registered returned a schedule of several
\* sections and left candidates of the product out.
C1_Witness ==
    /\ Returned
    /\ last.criteria # <<>>
    /\ \E n \in DOMAIN Schedules : Len(Schedules[n]) >= 2
    /\ Len(Schedules) < Cardinality(ProductIndexes(Choices))

\* C2: pick_sections returns the passing candidates of the Cartesian product
\* of the choice lists, each once, in the product's lexicographic order: the
\* n-th schedule returned is the passing candidate that has n - 1 passing
\* candidates before it.
C2_ExactlyThePassingProduct ==
    Returned =>
        /\ Len(Schedules) = Cardinality(PassingIndexes)
        /\ \A p \in PassingIndexes :
               Schedules[Cardinality({q \in PassingIndexes : LexLess(q, p)}) + 1]
                   = CandidateAt(Choices, p)

\* A search over several choice lists returned at least two schedules and
\* left out a candidate that lies between two of them in product order.
C2_Witness ==
    /\ Returned
    /\ Len(Choices) >= 2
    /\ \E p, q \in PassingIndexes, r \in ProductIndexes(Choices) \ PassingIndexes :
           LexLess(p, r) /\ LexLess(r, q)


\* C3: the same courses and sections always give the same sequence of
\* candidates: a call of pick_sections that returns, with the registry of the
\* call that returned before it, returns the same list of schedules, in the
\* same process or in a new one.
C3_SameInputSameSequence ==
    [][(/\ Returned
        /\ last' # last
        /\ last'.call_ended.outcome = "returned"
        /\ last'.criteria = last.criteria)
       => last'.call_ended.schedules = Schedules]_vars

\* pick_sections has ended for the scenario's two courses, EECS 281 with
\* sections MoWeFr 9-10 and MoWeFr 10-11 and EECS 370 with sections MoWeFr
\* 9:30-10:30 and TuTh 2-3, with no criterion registered.
ScenarioSearched ==
    /\ last # NoCall
    /\ section_group_names = <<EECS281, EECS370>>
    /\ last.criteria = <<>>

\* C6 as stated: in the scenario pick_sections returns one candidate, the
\* second section of the one course with the second section of the other.
C6_ScenarioOneCandidate ==
    ScenarioSearched => (Returned /\ Schedules = << <<A2, B2>> >>)

\* C6 as amended: in the scenario pick_sections returns two candidates, in
\* product order: each section of the first course with the second section
\* of the second course, which meets on other days than both.
C6_ScenarioTwoCandidates ==
    ScenarioSearched => (Returned /\ Schedules = << <<A1, B2>>, <<A2, B2>> >>)

\* pick_sections has ended for the scenario's two courses, whose sections
\* meet at the times the scenario gives.
C6_Witness ==
    /\ ScenarioSearched
    /\ Choices = << <<A1, A2>>, <<B1, B2>> >>
    /\ [i \in 1..4 |-> length(meeting_time(<<A1, A2, B1, B2>>[i]))]
           = <<60, 60, 60, 60>>
    /\ [i \in 1..4 |-> to_datetime_time(meeting_time(<<A1, A2, B1, B2>>[i]).time_begin)]
           = <<9 * 60, 10 * 60, 9 * 60 + 30, 14 * 60>>

\* A class code for which the search finds no section of that code.
HasNoSections(class_code) ==
    \A i \in DOMAIN SearchResult(class_code) :
        code(SearchResult(class_code)[i]) # class_code

AsksForEmptyCourse ==
    \E n \in DOMAIN section_group_names : HasNoSections(section_group_names[n])

\* C7 as stated: when one of the courses asked for has no valid section,
\* pick_sections returns the empty list and raises nothing.
C7_EmptyCourseReturnsEmptyList ==
    (last # NoCall /\ AsksForEmptyCourse)
    => (Returned /\ Schedules = <<>>)

\* C7 as amended: when one of the courses asked for has no valid section,
\* pick_sections returns no list: building the section groups ends in the
\* AssertionError of a SectionGroup.
C7_EmptyCourseRaises ==
    (last # NoCall /\ AsksForEmptyCourse)
    => last.call_ended.outcome = "AssertionError"

\* pick_sections has ended for two courses of which the first has sections
\* that make a group and the second has none.
C7_Witness ==
    /\ last # NoCall
    /\ Len(section_group_names) = 2
    /\ ~ HasNoSections(section_group_names[1])
    /\ get_section_group(section_group_names[1]).tag = "SectionGroup"
    /\ HasNoSections(section_group_names[2])

\* C11: add_criterion appends the predicate to the end of the registry and
\* leaves the result of a pick_sections call that has ended as it is; a
\* pick_sections call that ends afterwards ran with the registry as it is
\* then, and returns no candidate that a registered predicate rejects.
C11_AddCriterionFrame ==
    [][ /\ (criteria' # criteria /\ criteria' # <<>>) =>
               /\ \E time_period \in TimePeriods :
                      criteria' = Append(criteria, time_period)
               /\ last' = last
        /\ last' # last =>
               /\ last'.criteria = criteria
               /\ \A n \in DOMAIN last'.call_ended.schedules :
                      \A k \in DOMAIN criteria :
                          doesnt_conflict_with(criteria[k],
                                               last'.call_ended.schedules[n])
      ]_vars

\* A criterion was registered after a search returned, as the last of two,
\* and a schedule of that search conflicts with it.
C11_Witness ==
    /\ Returned
    /\ Len(criteria) = 2
    /\ criteria = Append(last.criteria, Last(criteria))
    /\ \E n \in DOMAIN Schedules :
           ~ doesnt_conflict_with(Last(criteria), Schedules[n])

\* The (class code, section type) pairs of the classes asked for: the types
\* of the sections the search finds under each code.
SelectedPairs ==
    UNION { {<<class_code, SearchResult(class_code)[j].SectionType>> :
                j \in {j \in DOMAIN SearchResult(class_code) :
                          code(SearchResult(class_code)[j]) = class_code}} :
            class_code \in SeqToSet(section_group_names) }

\* C12: every candidate pick_sections returns has exactly one section for
\* each (section group, section type) pair of the classes asked for: it is
\* as long as there are pairs, its sections' (class code, section type) are
\* those pairs, and its i-th section is one of the i-th choice list, whose
\* sections all have that class code and section type.
C12_OneSectionPerGroupAndType ==
    Returned =>
        \A n \in DOMAIN Schedules :
            LET candidate == Schedules[n]
            IN  /\ Len(candidate) = Cardinality(SelectedPairs)
                /\ {<<code(candidate[i]), candidate[i].SectionType>> :
                        i \in DOMAIN candidate} = SelectedPairs
                /\ Len(candidate) = Len(Choices)
                /\ \A i \in DOMAIN candidate :
                       /\ \E j \in DOMAIN Choices[i] : Choices[i][j] = candidate[i]
                       /\ \A j \in DOMAIN Choices[i] :
                              /\ code(Choices[i][j]) = code(candidate[i])
                              /\ Choices[i][j].SectionType
                                     = candidate[i].SectionType

\* A search for two classes, one of them with lectures and discussions,
\* returned a schedule of three sections.
C12_Witness ==
    /\ Returned
    /\ Cardinality(SeqToSet(section_group_names)) = 2
    /\ \E n \in DOMAIN Schedules :
           /\ Len(Schedules[n]) = 3
           /\ \E i, j \in DOMAIN Schedules[n] :
                  /\ code(Schedules[n][i]) = code(Schedules[n][j])
                  /\ Schedules[n][i].SectionType # Schedules[n][j].SectionType

\* How many times the conditions evaluated for one candidate name a predicate.
TimesEvaluated(predicate, conditions) ==
    Cardinality({i \in DOMAIN conditions : conditions[i].predicate = predicate})

\* C17: during pick_sections the cross-campus predicate is evaluated once,
\* not twice, for every candidate that passes the no-overlap predicate (and
\* not at all for the others).
C17_CrossCampusAppliedOnce ==
    Returned =>
        \A p \in ProductIndexes(Choices) :
            TimesEvaluated("buildings_arent_too_far_away",
                           Conditions(TheBuildingAPI, last.criteria,
                                      CandidateAt(Choices, p)))
                = IF HasOverlap(CandidateAt(Choices, p)) THEN 0 ELSE 1

----------------------------------------------------------------------------
(* Claims about MeetingTime.conflicts_with, under SpecMeetingTime *)

ConflictsWithApplied == pc = "conflicts_with" /\ ret # <<>>

DaysOf(mt) == SeqToSet(mt.day_list)

\* The minutes that the two time intervals have in common (negative: the gap).
MinutesInCommon(a, b) ==
    LET begin == IF to_datetime_time(a.time_begin) > to_datetime_time(b.time_begin)
                 THEN to_datetime_time(a.time_begin)
                 ELSE to_datetime_time(b.time_begin)
        end   == IF to_datetime_time(a.time_end) < to_datetime_time(b.time_end)
                 THEN to_datetime_time(a.time_end)
                 ELSE to_datetime_time(b.time_end)
    IN  end - begin

BeginsBeforeEnd(mt) ==
    to_datetime_time(mt.time_begin) < to_datetime_time(mt.time_end)

\* C4: for two meeting times whose sets of days are disjoint, conflicts_with
\* returns false, whatever their times.
C4_DisjointDaysNeverConflict ==
    (ConflictsWithApplied /\ DaysOf(call.self) \cap DaysOf(call.other) = {})
    => ret[1] = FALSE

\* conflicts_with was applied to meeting times on different days whose time
\* intervals overlap.
C4_Witness ==
    /\ ConflictsWithApplied
    /\ DaysOf(call.self) \cap DaysOf(call.other) = {}
    /\ BeginsBeforeEnd(call.self) /\ BeginsBeforeEnd(call.other)
    /\ MinutesInCommon(call.self, call.other) > 0

\* C5: for two meeting times, each beginning before it ends, that share a
\* day, conflicts_with returns true exactly when their time intervals have
\* more than zero minutes in common; when one ends at the minute the other
\* begins it returns false.
C5_SharedDayConflictIffOverlap ==
    (/\ ConflictsWithApplied
     /\ BeginsBeforeEnd(call.self) /\ BeginsBeforeEnd(call.other)
     /\ DaysOf(call.self) \cap DaysOf(call.other) # {})
    => /\ ret[1] = (MinutesInCommon(call.self, call.other) > 0)
       /\ call.self.time_end = call.other.time_begin => ret[1] = FALSE
       /\ call.other.time_end = call.self.time_begin => ret[1] = FALSE

\* conflicts_with was applied to meeting times that share a day, the first
\* ending at the minute the second begins.
C5_Witness ==
    /\ ConflictsWithApplied
    /\ BeginsBeforeEnd(call.self) /\ BeginsBeforeEnd(call.other)
    /\ DayMo \in DaysOf(call.self) \cap DaysOf(call.other)
    /\ call.self.time_end = call.other.time_begin
    /\ ret = <<FALSE>>

----------------------------------------------------------------------------
(* Claims about SectionGroup, under SpecSectionGroup *)

NamesDiffer(section_list) ==
    \E i, j \in DOMAIN section_list :
        section_list[i].CourseDescr # section_list[j].CourseDescr

\* C8: a SectionGroup that exists has at least one section, one display name
\* shared by all its sections, and at least one section type; constructing
\* one from an empty list or from sections whose names differ ends in an
\* error and yields no SectionGroup.
C8_SectionGroupInvariant ==
    (pc = "SectionGroup" /\ ret # <<>>)
    => /\ ret[1].tag \in {"SectionGroup", "AssertionError"}
       /\ ret[1].tag = "SectionGroup" =>
              /\ ret[1].section_list = call.section_list
              /\ Len(ret[1].section_list) > 0
              /\ \A i \in DOMAIN ret[1].section_list :
                     ret[1].section_list[i].CourseDescr = ret[1].section_name
              /\ ret[1].section_types # {}
              /\ ret[1].section_types =
                     {call.section_list[i].SectionType : i \in DOMAIN call.section_list}
       /\ (call.section_list = <<>> \/ NamesDiffer(call.section_list))
              => ret[1].tag = "AssertionError"

\* SectionGroup was applied to a list of sections whose names differ, and
\* ended in an error.
C8_Witness ==
    /\ pc = "SectionGroup" /\ ret # <<>>
    /\ call.section_list # <<>>
    /\ NamesDiffer(call.section_list)
    /\ ret[1].tag = "AssertionError"

----------------------------------------------------------------------------
(* Claims about Building.from_section, under SpecBuilding *)

FromSectionApplied == pc = "from_section" /\ ret # <<>>

\* The word of the location that names the building.
BuildingWord(location) ==
    IF "UMMA" \in SeqToSet(location) THEN "UMMA" ELSE Last(location)

\* The location is to be arranged, or its building word is "BUS".
NotAssigned(location) ==
    Last(location) = "ARR" \/ BuildingWord(location) = "BUS"

\* The abbreviations the building word stands for: itself and its alias.
Abbreviations(word) ==
    {word} \cup (IF word \in DOMAIN EXTRA_ABBREVIATIONS
                 THEN {EXTRA_ABBREVIATIONS[word]} ELSE {})

\* The building API lists a campus and a building the word stands for.
Mapped(building_api, location) ==
    /\ building_api.Campuses # <<>>
    /\ \E k \in DOMAIN building_api.Buildings :
           building_api.Buildings[k].Abbreviation
               \in Abbreviations(BuildingWord(location))

----------------------------------------------------------------------------
(* Claims about buildings_arent_too_far_away, under SpecTravel *)

TravelApplied == pc = "buildings_arent_too_far_away" /\ ret # <<>>

\* The pairs of itertools.combinations(candidate, 2), and their order.
PairsOf(candidate) ==
    {pr \in (DOMAIN candidate) \X (DOMAIN candidate) : pr[1] < pr[2]}

PairBefore(pr, qr) == pr[1] < qr[1] \/ (pr[1] = qr[1] /\ pr[2] < qr[2])

\* The gap from the end of the section that begins earlier to the beginning
\* of the other is less than minutes.
GapLessThan(s1, s2, minutes) ==
    \E e, l \in {meeting_time(s1), meeting_time(s2)} :
        /\ {e, l} = {meeting_time(s1), meeting_time(s2)}
        /\ to_datetime_time(e.time_begin) <= to_datetime_time(l.time_begin)
        /\ to_datetime_time(l.time_begin) - to_datetime_time(e.time_end) < minutes

\* Both buildings are resolved and on different campuses, and the sections
\* share a day.
CrossCampusSameDay(s1, s2) ==
    /\ from_section(TheBuildingAPI, s1).tag = "Building"
    /\ from_section(TheBuildingAPI, s2).tag = "Building"
    /\ from_section(TheBuildingAPI, s1).info.Campus
           # from_section(TheBuildingAPI, s2).info.Campus
    /\ DaysOf(meeting_time(s1)) \cap DaysOf(meeting_time(s2)) # {}

\* The pair that fails a candidate.
TooClose(s1, s2) == CrossCampusSameDay(s1, s2) /\ GapLessThan(s1, s2, 30)

\* Resolving the building of one of the two sections raises.
Unresolvable(s1, s2) ==
    \/ from_section(TheBuildingAPI, s1).tag \notin {"Building", "None"}
    \/ from_section(TheBuildingAPI, s2).tag \notin {"Building", "None"}

----------------------------------------------------------------------------
(* Claims about print_schedule and the ScheduleCanvas, under SpecRender *)

\* print_schedule has made the canvas and added the sections it could.
Rendered == pc \in {"add_section", "printed", "crashed"} /\ todo = <<>>

\* What the cell of the canvas at row and column, counted from 0, holds.
Cell(row, column) == canvas.canvas[row + 1][column + 1]

\* The minutes from midnight to the begin and to the end of a section.
BeginMinute(section) == to_datetime_time(meeting_time(section).time_begin)
EndMinute(section) == to_datetime_time(meeting_time(section).time_end)

\* A section that meets on one day for exactly one hour and begins on a
\* half-hour boundary at or after 08:00.
OneDayOneHour(section) ==
    /\ Len(meeting_time(section).day_list) = 1
    /\ meeting_time(section).day_list[1] \in SeqToSet(DAYS)
    /\ EndMinute(section) - BeginMinute(section) = 60
    /\ BeginMinute(section) >= 8 * 60
    /\ BeginMinute(section) % 30 = 0

\* The canvas holds a box's left side from the row top down to the row
\* bottom in the column left, with its corners, and the corners of its
\* right side in the column right.
BoxSide(top, bottom, left, right) ==
    /\ top \in 0..(canvas.height - 1)
    /\ bottom \in 0..(canvas.height - 1)
    /\ Cell(top, left) = "+" /\ Cell(top, right) = "+"
    /\ Cell(bottom, left) = "+" /\ Cell(bottom, right) = "+"
    /\ \A row \in (top + 1)..(bottom - 1) : Cell(row, left) \in {"|", "+"}

\* C13: for a schedule of a single section that meets on one day for exactly
\* one hour and begins on a half-hour boundary at or after 08:00, the box
\* drawn is two blocks high (its bottom corners are 4 x 2 = 8 rows below its
\* top corners) and its top row is 4 x (the number of half-hour blocks from
\* 08:00 to the begin of the section).
C13_OneHourBoxIsTwoBlocks ==
    (Rendered /\ Len(call.schedule) = 1 /\ OneDayOneHour(call.schedule[1])) =>
        LET section == call.schedule[1]
            top == 4 * ((BeginMinute(section) - (8 * 60)) \div 30)
            left == canvas.column_width
                        * (DAYS_index(meeting_time(section).day_list[1]) - 1)
        IN  /\ canvas.raised = ""
            /\ BoxSide(top, top + 8, left, left + canvas.column_width)

\* A text that add_section draws BLOCK_PADDING columns after the left border
\* of a box reaches the box's right border, or goes beyond it.
TooWide(text) == BLOCK_PADDING + Len(text) > canvas.column_width

\* C15: when the code or the section label of a section is too wide for the
\* column of the canvas, rendering fails with an error: print_schedule never
\* prints a canvas on which such a text runs over a box's border.
C15_TooWideLabelFailsFast ==
    pc = "printed" =>
        \A k \in DOMAIN call.schedule :
            /\ ~ TooWide(Text(code(call.schedule[k])))
            /\ ~ TooWide(Text(section_label(call.schedule[k])))

\* The time marker of block i as the constructor draws it.
TimeMarker(i) == strftime(gmtime(START_TIME + (i * RESOLUTION)))

\* C16: the canvas of print_schedule holds exactly the 24 time markers in the
\* gutter to the right of the frame, the marker of 08:00 AM + i half-hours in
\* the row 4 * i for i = 0..23 and nothing in the other rows, and adding
\* sections does not change them.
C16_TimeMarkersStay ==
    pc \in {"add_section", "printed", "crashed"} =>
        \A row \in 0..(canvas.height - 1) :
            \A k \in 1..canvas.time_width :
                Cell(row, canvas.frame_width + (k - 1))
                    = IF row % BLOCK_HEIGHT = 0
                      THEN TimeMarker(row \div BLOCK_HEIGHT)[k]
                      ELSE " "

\* A section within the hours and the days of the grid: it begins at 08:00 or
\* later, ends at 20:00 or earlier, and meets on days from Mo to Fr.
WithinGrid(section) ==
    /\ BeginMinute(section) >= 8 * 60
    /\ BeginMinute(section) <= EndMinute(section)
    /\ EndMinute(section) <= 20 * 60
    /\ SeqToSet(meeting_time(section).day_list) \subseteq SeqToSet(DAYS)

\* C18: when every section of the schedule is within the hours and the days
\* of the grid, add_section uses no index outside the canvas: no call raises,
\* and every row a call touches is in 0..frame_height-1 and every column in
\* 0..width-1.
C18_AddSectionStaysOnCanvas ==
    (/\ pc \in {"add_section", "printed", "crashed"}
     /\ \A k \in DOMAIN call.schedule : WithinGrid(call.schedule[k])) =>
        /\ canvas.raised = ""
        /\ \A point \in canvas.touched :
               /\ point[1] \in 0..(canvas.frame_height - 1)
               /\ point[2] \in 0..(canvas.width - 1)

----------------------------------------------------------------------------
(* Claims about _draw_line and _draw_box, under SpecDraw *)

\* C14: a call of _draw_line or _draw_box never replaces a corner: every
\* cell of the canvas that held "+" before the call holds "+" after it, also
\* where the line drawn crosses or runs along lines drawn before.
C14_CornersAreKept ==
    [][ \A row \in DOMAIN canvas.canvas :
            \A column \in DOMAIN canvas.canvas[row] :
                canvas.canvas[row][column] = "+" =>
                    canvas'.canvas[row][column] = "+" ]_vars

\* The call made last drew a line along the first row, from its first to its
\* third column, across a corner that an earlier call had put between them.
C14_Witness ==
    /\ Len(call) = 2
    /\ call[1] = <<"_draw_line", <<0, 1>>, <<1, 1>>>>
    /\ call[2] = <<"_draw_line", <<0, 0>>, <<0, 2>>>>
    /\ canvas.raised = ""
    /\ Cell(0, 0) = "+" /\ Cell(0, 1) = "+" /\ Cell(0, 2) = "+"
    /\ Cell(1, 1) = "+"

====
